---- MODULE Spec2Model ----
(***************************************************************************)
(* shell-gpt (sgpt.py): one run of main, from credential resolution to the *)
(* optional execution of the returned shell command, and get_api_key       *)
(* called repeatedly against the credential file.                          *)
(*                                                                         *)
(* Text is a sequence of pieces.  User-controlled text (secret, prompt,    *)
(* edited file, response) is a sequence of one-character strings; the      *)
(* fixed parts of the f-string templates are single pieces.  The string a  *)
(* sequence stands for is the concatenation of its pieces.                 *)
(***************************************************************************)
EXTENDS Integers, Sequences, FiniteSets, TLC

VARIABLES
    keyFile,        \* content of KEY_FILE, or NoFile when it does not exist
    hadKeyFile,     \* whether KEY_FILE existed when the run started
    promptArg,      \* the PROMPT argument as given on the command line
    shell, execute, code, editor, animation,   \* the option flags of main
    windows,        \* platform.system() == "Windows"
    pc,             \* position of main
    prompt,         \* main's local variable prompt
    api_key,        \* main's local variable api_key
    edited,         \* what the editor left in the temporary file
    rawResponse,    \* what openai_request returned, before strip()
    response_text,  \* main's local variable response_text after strip()
    error,          \* the exception that ended the run, "" when none
    sent,           \* requests posted to the completion service
    out,            \* writes made on the terminal by typer_writer
    executed,       \* commands handed to os.system at line 149
    entered,        \* secrets typed at the getpass prompt
    returns,        \* values returned by successive get_api_key calls
    answers,        \* answers given at the confirmation prompt
    log             \* the side effects of the run, in order

vars == <<keyFile, hadKeyFile, promptArg, shell, execute, code, editor, animation, windows,
          pc, prompt, api_key, edited, rawResponse, response_text, error,
          sent, out, executed, entered, returns, answers, log>>

---------------------------------------------------------------------------
\* Bounds of the model.
MaxKeyLen == 1
MaxSecretLen == 4
MaxPromptLen == 1
MaxEditLen == 1
MaxRespLen == 3
MaxCalls == 2

SeqsUpTo(S, n) == UNION {[1..k -> S] : k \in 0..n}

KeyChars == {"k", " "}
PromptChars == {"p"}
EditChars == {"e", "\n"}
RespChars == {"x", " "}

None == <<"<None>">>
NoFile == <<"<absent>">>
NoValue == <<"<unset>">>

KeyTexts == SeqsUpTo(KeyChars, MaxKeyLen)
SecretTexts == SeqsUpTo(KeyChars, MaxSecretLen)
PromptArgs == {None} \cup SeqsUpTo(PromptChars, MaxPromptLen)
EditTexts == SeqsUpTo(EditChars, MaxEditLen)
RespTexts == SeqsUpTo(RespChars, MaxRespLen)

Whitespace == {" ", "\n"}

---------------------------------------------------------------------------
\* str.strip(): drop the leading and the trailing whitespace characters.
RECURSIVE lstrip(_)
lstrip(s) ==
    IF s # <<>> /\ Head(s) \in Whitespace THEN lstrip(Tail(s)) ELSE s

RECURSIVE rstrip(_)
rstrip(s) ==
    IF s # <<>> /\ s[Len(s)] \in Whitespace
    THEN rstrip(SubSeq(s, 1, Len(s) - 1))
    ELSE s

strip_identity(s) == s

strip(s) == rstrip(lstrip(s))

\* Python truth value of a str-or-None.
Truthy(s) == s # None /\ s # <<>>

\* What an f-string puts in place of {value}.
Format(s) == IF s = None THEN <<"None">> ELSE s

---------------------------------------------------------------------------
\* get_api_key against a credential file `file`; `secret` is what the user
\* types if asked.  Returns the value, the file afterwards and the effects.
get_api_key_nowrite(file, secret) ==
    IF file = NoFile
    THEN [ret |-> secret, file |-> file, asked |-> <<secret>>,
          log |-> <<"getpass", "mkdir">>]
    ELSE [ret |-> strip(file), file |-> file, asked |-> <<>>,
          log |-> <<"read_text">>]

get_api_key(file, secret) ==
    IF file = NoFile
    THEN [ret |-> secret, file |-> secret, asked |-> <<secret>>,
          log |-> <<"getpass", "mkdir", "write_text">>]
    ELSE [ret |-> strip(file), file |-> file, asked |-> <<>>,
          log |-> <<"read_text">>]

\* The secrets the user may type: only asked for when the file is missing.
Typed(file, S) == IF file = NoFile THEN S ELSE {<<>>}

---------------------------------------------------------------------------
\* The f-string templates of main.
CtxHead == "\n        Context: Provide only "
ShellTail == " command as output.\n        "
CodeCtx == "\n        Context: Provide only code as output.\n        "
PromptLabel == "Prompt: "
CommandLabel == "\n        Command:\n        "
CodeLabel == "\n        Code:\n        "

current_shell(isWindows) == IF isWindows THEN "PowerShell" ELSE "Bash"

ShellPrompt(p, isWindows) ==
    <<CtxHead, current_shell(isWindows), ShellTail, PromptLabel>>
        \o Format(p) \o <<CommandLabel>>

CodePrompt(p) == <<CodeCtx, PromptLabel>> \o Format(p) \o <<CodeLabel>>

MODEL_NAME == "gpt-3.5-turbo"

---------------------------------------------------------------------------
\* typer_writer: the writes it makes on the terminal, in order.
Color(shell_or_code) == IF shell_or_code THEN "magenta" ELSE "default"

secho(text, nl, fg, bold) == [text |-> text, nl |-> nl, fg |-> fg, bold |-> bold]

echo(text) == [text |-> text, nl |-> TRUE, fg |-> "default", bold |-> FALSE]

typer_writer_animate_first(text, isCode, isShell, animate) ==
    LET shell_or_code == isShell \/ isCode
        color == Color(shell_or_code)
    IN  IF animate
        THEN [i \in 1..Len(text) |-> secho(<<text[i]>>, FALSE, color, shell_or_code)]
                 \o <<echo(<<>>)>>
        ELSE <<secho(text, TRUE, color, shell_or_code)>>

typer_writer(text, isCode, isShell, animate) ==
    LET shell_or_code == isShell \/ isCode
        color == Color(shell_or_code)
    IN  IF animate /\ ~shell_or_code
        THEN [i \in 1..Len(text) |-> secho(<<text[i]>>, FALSE, color, shell_or_code)]
                 \o <<echo(<<>>)>>
        ELSE <<secho(text, TRUE, color, shell_or_code)>>

---------------------------------------------------------------------------
\* One run of main.
Init ==
    /\ keyFile \in {NoFile} \cup KeyTexts
    /\ hadKeyFile = (keyFile # NoFile)
    /\ promptArg \in PromptArgs
    /\ shell \in BOOLEAN
    /\ execute \in BOOLEAN
    /\ code \in BOOLEAN
    /\ editor \in BOOLEAN
    /\ animation \in BOOLEAN
    /\ windows \in BOOLEAN
    /\ pc = "get_api_key"
    /\ prompt = promptArg
    /\ api_key = NoValue
    /\ edited = NoValue
    /\ rawResponse = NoValue
    /\ response_text = NoValue
    /\ error = ""
    /\ sent = <<>>
    /\ out = <<>>
    /\ executed = <<>>
    /\ entered = <<>>
    /\ returns = <<>>
    /\ answers = <<>>
    /\ log = <<>>

\* line 125: api_key = get_api_key()
GetApiKey ==
    /\ pc = "get_api_key"
    /\ \E secret \in Typed(keyFile, KeyTexts) :
         LET r == get_api_key(keyFile, secret)
         IN  /\ api_key' = r.ret
             /\ keyFile' = r.file
             /\ entered' = entered \o r.asked
             /\ log' = log \o r.log
    /\ pc' = "check"
    /\ UNCHANGED <<hadKeyFile, promptArg, shell, execute, code, editor, animation, windows,
                   prompt, edited, rawResponse, response_text, error, sent,
                   out, executed, returns, answers>>

\* lines 126-127: the PROMPT argument is required unless --editor is given.
CheckParams_NoneOnly ==
    /\ pc = "check"
    /\ IF prompt = None /\ ~editor
       THEN /\ pc' = "failed"
            /\ error' = "MissingParameter"
            /\ log' = Append(log, "raise")
       ELSE /\ pc' = "compose"
            /\ UNCHANGED <<error, log>>
    /\ UNCHANGED <<keyFile, hadKeyFile, promptArg, shell, execute, code, editor, animation,
                   windows, prompt, api_key, edited, rawResponse, response_text,
                   sent, out, executed, entered, returns, answers>>

CheckParams ==
    /\ pc = "check"
    /\ IF ~Truthy(prompt) /\ ~editor
       THEN /\ pc' = "failed"
            /\ error' = "MissingParameter"
            /\ log' = Append(log, "raise")
       ELSE /\ pc' = "compose"
            /\ UNCHANGED <<error, log>>
    /\ UNCHANGED <<keyFile, hadKeyFile, promptArg, shell, execute, code, editor, animation,
                   windows, prompt, api_key, edited, rawResponse, response_text,
                   sent, out, executed, entered, returns, answers>>

\* lines 128-141: wrap the prompt in the template of the mode.
ComposePrompt ==
    /\ pc = "compose"
    /\ prompt' = IF shell THEN ShellPrompt(prompt, windows)
                 ELSE IF code THEN CodePrompt(prompt)
                 ELSE prompt
    /\ pc' = IF editor THEN "edit" ELSE "request"
    /\ UNCHANGED <<keyFile, hadKeyFile, promptArg, shell, execute, code, editor, animation,
                   windows, api_key, edited, rawResponse, response_text, error,
                   sent, out, executed, entered, returns, answers, log>>

\* lines 142-143 and get_edited_prompt (73-86): the editor runs on a fresh
\* temporary file; what it leaves there becomes the prompt.
GetEditedPrompt ==
    /\ pc = "edit"
    /\ \E output \in EditTexts :
         /\ edited' = output
         /\ IF output = <<>>
            THEN /\ pc' = "failed"
                 /\ error' = "BadParameter"
                 /\ log' = log \o <<"tempfile", "editor", "read", "remove", "raise">>
                 /\ UNCHANGED prompt
            ELSE /\ pc' = "request"
                 /\ prompt' = output
                 /\ log' = log \o <<"tempfile", "editor", "read", "remove">>
                 /\ UNCHANGED error
    /\ UNCHANGED <<keyFile, hadKeyFile, promptArg, shell, execute, code, editor, animation,
                   windows, api_key, rawResponse, response_text, sent, out,
                   executed, entered, returns, answers>>

\* line 144 and openai_request (89-98, under loading_spinner 61-70): one POST
\* with a 180 s timeout; a transport failure, a timeout or a non-success
\* status raises, otherwise the first choice's content is returned.
RequestFailures == {"ConnectionError", "Timeout", "HTTPError"}

Request(p, key) == [prompt |-> p, model |-> MODEL_NAME, api_key |-> key]

OpenaiRequest_swallow ==
    /\ pc = "request"
    /\ sent' = Append(sent, Request(prompt, api_key))
    /\ log' = Append(log, "post")
    /\ \/ \E failure \in RequestFailures :
            /\ pc' = "render"
            /\ error' = failure
            /\ rawResponse' = <<>>
       \/ \E content \in RespTexts :
            /\ pc' = "render"
            /\ rawResponse' = content
            /\ UNCHANGED error
    /\ UNCHANGED <<keyFile, hadKeyFile, promptArg, shell, execute, code, editor, animation,
                   windows, prompt, api_key, edited, response_text, out,
                   executed, entered, returns, answers>>

OpenaiRequest ==
    /\ pc = "request"
    /\ sent' = Append(sent, Request(prompt, api_key))
    /\ log' = Append(log, "post")
    /\ \/ \E failure \in RequestFailures :
            /\ pc' = "failed"
            /\ error' = failure
            /\ UNCHANGED rawResponse
       \/ \E content \in RespTexts :
            /\ pc' = "render"
            /\ rawResponse' = content
            /\ UNCHANGED error
    /\ UNCHANGED <<keyFile, hadKeyFile, promptArg, shell, execute, code, editor, animation,
                   windows, prompt, api_key, edited, response_text, out,
                   executed, entered, returns, answers>>

\* lines 146-147: strip the response and write it on the terminal.
Render ==
    /\ pc = "render"
    /\ response_text' = strip(rawResponse)
    /\ out' = out \o typer_writer(response_text', code, shell, animation)
    /\ log' = Append(log, "typer_writer")
    /\ pc' = "gate"
    /\ UNCHANGED <<keyFile, hadKeyFile, promptArg, shell, execute, code, editor, animation,
                   windows, prompt, api_key, edited, rawResponse, error, sent,
                   executed, entered, returns, answers>>

\* lines 148-149: shell and execute and typer.confirm(...) => os.system.
ExecutionGate_noconfirm ==
    /\ pc = "gate"
    /\ IF shell /\ execute
       THEN /\ executed' = Append(executed, response_text)
            /\ log' = Append(log, "os.system")
       ELSE UNCHANGED <<executed, log>>
    /\ pc' = "done"
    /\ UNCHANGED <<keyFile, hadKeyFile, promptArg, shell, execute, code, editor, animation,
                   windows, prompt, api_key, edited, rawResponse, response_text,
                   error, sent, out, entered, returns, answers>>

ExecutionGate ==
    /\ pc = "gate"
    /\ IF shell /\ execute
       THEN \E yes \in BOOLEAN :
              /\ answers' = Append(answers, yes)
              /\ IF yes
                 THEN /\ executed' = Append(executed, response_text)
                      /\ log' = log \o <<"confirm", "os.system">>
                 ELSE /\ log' = Append(log, "confirm")
                      /\ UNCHANGED executed
       ELSE UNCHANGED <<answers, executed, log>>
    /\ pc' = "done"
    /\ UNCHANGED <<keyFile, hadKeyFile, promptArg, shell, execute, code, editor, animation,
                   windows, prompt, api_key, edited, rawResponse, response_text,
                   error, sent, out, entered, returns>>

Next ==
    \/ GetApiKey
    \/ CheckParams
    \/ ComposePrompt
    \/ GetEditedPrompt
    \/ OpenaiRequest
    \/ Render
    \/ ExecutionGate

Spec == Init /\ [][Next]_vars

---------------------------------------------------------------------------
\* get_api_key called again and again against the same credential file.
InitKey ==
    /\ keyFile \in {NoFile} \cup SecretTexts
    /\ hadKeyFile = (keyFile # NoFile)
    /\ promptArg = None
    /\ shell = FALSE
    /\ execute = FALSE
    /\ code = FALSE
    /\ editor = FALSE
    /\ animation = FALSE
    /\ windows = FALSE
    /\ pc = "caller"
    /\ prompt = None
    /\ api_key = NoValue
    /\ edited = NoValue
    /\ rawResponse = NoValue
    /\ response_text = NoValue
    /\ error = ""
    /\ sent = <<>>
    /\ out = <<>>
    /\ executed = <<>>
    /\ entered = <<>>
    /\ returns = <<>>
    /\ answers = <<>>
    /\ log = <<>>

CallGetApiKey ==
    /\ pc = "caller"
    /\ Len(returns) < MaxCalls
    /\ \E secret \in Typed(keyFile, SecretTexts) :
         LET r == get_api_key(keyFile, secret)
         IN  /\ returns' = Append(returns, r.ret)
             /\ keyFile' = r.file
             /\ entered' = entered \o r.asked
             /\ log' = log \o <<"call">> \o r.log
    /\ UNCHANGED <<hadKeyFile, promptArg, shell, execute, code, editor, animation, windows,
                   pc, prompt, api_key, edited, rawResponse, response_text,
                   error, sent, out, executed, answers>>

NextKey == CallGetApiKey

SpecKey == InitKey /\ [][NextKey]_vars

---------------------------------------------------------------------------
\* Vocabulary of the properties.
Contains(s, t) ==
    \E i \in 0..(Len(s) - Len(t)) : SubSeq(s, i + 1, i + Len(t)) = t

AllWhitespace(s) == \A i \in 1..Len(s) : s[i] \in Whitespace

\* t is raw without its leading and trailing whitespace.
IsTrimOf(t, raw) ==
    /\ t # <<>> => t[1] \notin Whitespace /\ t[Len(t)] \notin Whitespace
    /\ \E i \in 0..Len(raw) : \E j \in i..Len(raw) :
         /\ AllWhitespace(SubSeq(raw, 1, i))
         /\ SubSeq(raw, i + 1, j) = t
         /\ AllWhitespace(SubSeq(raw, j + 1, Len(raw)))

\* Every b in the log has an a somewhere before it.
Precedes(a, b) ==
    \A j \in 1..Len(log) : log[j] = b => \E i \in 1..(j - 1) : log[i] = a

Logged(a) == \E i \in 1..Len(log) : log[i] = a

RECURSIVE TextOf(_)
TextOf(writes) ==
    IF writes = <<>> THEN <<>> ELSE Head(writes).text \o TextOf(Tail(writes))

---------------------------------------------------------------------------
\* C1: the response is handed to os.system only when --shell and --execute
\* are set and the user said yes at the confirmation prompt; when they are
\* set and the user says no, nothing is executed and the run ends without
\* error; with any other flags no confirmation is asked and nothing is run.
C1_ExecuteOnlyWhenConfirmed ==
    /\ executed # <<>> => shell /\ execute /\ answers = <<TRUE>>
    /\ Logged("os.system") => executed # <<>>
    /\ (shell /\ execute /\ answers = <<FALSE>>) =>
           executed = <<>> /\ pc = "done" /\ error = ""
    /\ ~(shell /\ execute) =>
           answers = <<>> /\ executed = <<>> /\ ~Logged("confirm")

C1_Witness ==
    pc = "done" /\ shell /\ execute /\ answers = <<FALSE>> /\ out # <<>>

\* C2: with --shell, the prompt sent to the completion service names the
\* host's shell family and holds the raw prompt (the editor's text in editor
\* mode) between the Prompt: and Command: labels.
C2_ShellPromptScaffold ==
    (shell /\ sent # <<>>) =>
        LET raw == IF editor THEN edited ELSE promptArg
            p == sent[1].prompt
        IN  /\ Contains(p, <<current_shell(windows)>>)
            /\ Contains(p, <<PromptLabel>> \o raw \o <<CommandLabel>>)

\* C3: without a prompt (missing or empty) and without --editor the run
\* fails with a parameter error; nothing is sent, no editor is launched,
\* nothing is rendered and nothing is executed.
C3_MissingPromptFails ==
    (~Truthy(promptArg) /\ ~editor) =>
        /\ sent = <<>> /\ out = <<>> /\ executed = <<>> /\ answers = <<>>
        /\ ~Logged("editor") /\ ~Logged("post")
        /\ pc \in {"get_api_key", "check", "failed"}
        /\ pc = "failed" => error = "MissingParameter"

C3_Witness ==
    promptArg = <<>> /\ ~editor /\ pc = "failed" /\ error = "MissingParameter"

\* C4: in editor mode, a file whose content is empty after trimming
\* whitespace makes the run fail with BadParameter, and nothing is sent.
C4_BlankEditFails ==
    (editor /\ edited # NoValue /\ AllWhitespace(edited)) =>
        pc = "failed" /\ error = "BadParameter" /\ sent = <<>>

\* C5: with no credential file and an empty secret typed at the prompt, the
\* run fails with CredentialUnavailable before anything is sent.
C5_EmptySecretFails ==
    (~hadKeyFile /\ entered = << <<>> >>) =>
        pc = "failed" /\ error = "CredentialUnavailable" /\ sent = <<>>

\* C6: two get_api_key calls in a row return the same value, and the second
\* one does not prompt.
C6_SameKeyTwice ==
    Len(returns) >= 2 =>
        /\ returns[1] = returns[2]
        /\ Len(entered) <= (IF hadKeyFile THEN 0 ELSE 1)

\* C7: an error ends the run: at most one request is sent, and when it
\* fails nothing is rendered, no confirmation is asked, nothing is executed
\* and no further step is taken.
C7_ErrorsAreTerminal ==
    /\ Len(sent) <= 1
    /\ error # "" => pc = "failed" /\ ~ENABLED Next
    /\ error \in RequestFailures =>
           out = <<>> /\ answers = <<>> /\ executed = <<>> /\ Len(sent) = 1

C7_Witness ==
    error = "HTTPError" /\ pc = "failed" /\ shell /\ execute /\ Len(sent) = 1

\* C8: an executed command is the response without its leading and trailing
\* whitespace, it is the text that was rendered, and it was rendered before
\* the confirmation was asked and before it was executed.
C8_ExecutedIsRenderedTrim ==
    executed # <<>> =>
        /\ Len(executed) = 1
        /\ IsTrimOf(executed[1], rawResponse)
        /\ TextOf(out) = executed[1]
        /\ Precedes("typer_writer", "confirm")
        /\ Precedes("confirm", "os.system")

C8_Witness ==
    executed # <<>> /\ executed[1] # <<>> /\ rawResponse # executed[1]

\* C9: typer_writer writes the text one character at a time followed by one
\* newline write when animate is set and neither shell nor code is; in every
\* other case it makes one write of the whole text, emphasized exactly when
\* shell or code is set.
C9_AnimateXorHighlight ==
    pc \in {"gate", "done"} =>
        LET highlight == shell \/ code
            n == Len(response_text)
        IN  IF animation /\ ~highlight
            THEN /\ Len(out) = n + 1
                 /\ \A i \in 1..n :
                      out[i].text = <<response_text[i]>> /\ ~out[i].nl
                 /\ out[n + 1].text = <<>> /\ out[n + 1].nl
            ELSE /\ Len(out) = 1
                 /\ out[1].text = response_text /\ out[1].nl
                 /\ out[1].bold = highlight
                 /\ (out[1].fg = "magenta") = highlight

C9_Witness ==
    pc = "done" /\ animation /\ ~shell /\ ~code /\ Len(out) = 3

\* C10: the credential is resolved before the parameters are validated: a
\* run without prompt, without --editor and without a credential file asks
\* for the secret and writes the file before the parameter error is raised.
C10_KeyBeforeValidation ==
    /\ pc # "get_api_key" => api_key # NoValue /\ keyFile # NoFile
    /\ (~Truthy(promptArg) /\ ~editor /\ ~hadKeyFile /\ pc = "failed") =>
           /\ Len(entered) = 1
           /\ keyFile = entered[1]
           /\ log = <<"getpass", "mkdir", "write_text", "raise">>

C10_Witness ==
    promptArg = None /\ ~editor /\ ~hadKeyFile /\ pc = "failed"
        /\ keyFile = <<"k">>

====
